---------------------------- MODULE Spec2Model ----------------------------
(***************************************************************************)
(* Wall Creation (src/script.py): the inference stage of                   *)
(* on_ok_button_click, from the OK click to the sorted placement list.     *)
(*                                                                         *)
(* Number representation.  The script computes in IEEE doubles; the model  *)
(* computes in fixed point on integers:                                    *)
(*   - coordinates and lengths: multiples of 1/1000 of the host length     *)
(*     unit (feet), so 0.01 ft is 10 and 0.1 ft is 100;                    *)
(*   - components of unit direction vectors, sines and cosines: multiples  *)
(*     of 1/10000;                                                         *)
(*   - angles: multiples of 1/10000 rad, so pi is 31416;                   *)
(*   - millimetres: integers (the script rounds them to int itself).       *)
(* Every math.* call is an operator that computes its value (square root   *)
(* by bisection, atan2/sin/cos by range reduction and power series), to    *)
(* about one unit in the last place of the representation.                 *)
(***************************************************************************)
EXTENDS Integers, Sequences, FiniteSets, TLC

(***************************************************************************)
(* Arithmetic kernel                                                       *)
(***************************************************************************)
Abs(x) == IF x < 0 THEN -x ELSE x

Min(a, b) == IF a <= b THEN a ELSE b

Max(a, b) == IF a >= b THEN a ELSE b

\* a / b rounded to the nearest integer (b > 0), halves away from zero: the
\* fixed-point image of a float division, and of round() on its result.
RoundDiv(a, b) ==
  IF a >= 0 THEN (2 * a + b) \div (2 * b) ELSE -((2 * (-a) + b) \div (2 * b))

RECURSIVE SqrtBisect(_, _, _)
\* floor(sqrt(n)) by bisection; lo*lo <= n < hi*hi throughout.
SqrtBisect(n, lo, hi) ==
  IF hi - lo <= 1 THEN lo
  ELSE LET mid == (lo + hi) \div 2
       IN  IF mid * mid <= n THEN SqrtBisect(n, mid, hi)
           ELSE SqrtBisect(n, lo, mid)

\* math.sqrt, rounded to the nearest unit.
sqrt(n) ==
  LET r == SqrtBisect(n, 0, 46340)
  IN  IF n - r * r > r THEN r + 1 ELSE r

\* math.pi, math.pi / 2, 2 * math.pi and 3 * math.pi / 2 in 1/10000 rad.
Pi == 31416

HalfPi == Pi \div 2

TwoPi == 2 * Pi

ThreeHalfPi == (3 * Pi) \div 2

\* atan(u / 10000) in 1/10000 rad for 0 <= u <= 4142 (tan(pi/8)):
\* u - u^3/3 + u^5/5 - u^7/7 + u^9/9.
AtanSeries(u) ==
  LET u2 == RoundDiv(u * u, 10000)
      u3 == RoundDiv(u2 * u, 10000)
      u5 == RoundDiv(u3 * u2, 10000)
      u7 == RoundDiv(u5 * u2, 10000)
      u9 == RoundDiv(u7 * u2, 10000)
  IN  u - RoundDiv(u3, 3) + RoundDiv(u5, 5) - RoundDiv(u7, 7) + RoundDiv(u9, 9)

\* atan(n / d) for 0 <= n <= d, d > 0; above tan(pi/8) it is
\* pi/4 - atan((1 - t) / (1 + t)).
AtanRatio(n, d) ==
  LET t == RoundDiv(n * 10000, d)
  IN  IF t <= 4142 THEN AtanSeries(t)
      ELSE RoundDiv(Pi, 4) - AtanSeries(RoundDiv((10000 - t) * 10000, 10000 + t))

\* math.atan2(y, x), in (-pi, pi]; atan2(0, 0) = 0.
atan2(y, x) ==
  LET ax == Abs(x)
      ay == Abs(y)
      a  == IF ax = 0 /\ ay = 0 THEN 0
            ELSE IF ay <= ax THEN AtanRatio(ay, ax)
            ELSE HalfPi - AtanRatio(ax, ay)
  IN  IF x >= 0 THEN (IF y >= 0 THEN a ELSE -a)
      ELSE (IF y >= 0 THEN Pi - a ELSE a - Pi)

\* sin(x) for 0 <= x <= pi/2, the series x - x^3/3! + x^5/5! - x^7/7! + x^9/9!
\* in Horner form: x (1 - x^2/6 (1 - x^2/20 (1 - x^2/42 (1 - x^2/72)))).
SinSeries(x) ==
  LET x2 == RoundDiv(x * x, 10000)
      t4 == 10000 - RoundDiv(x2, 72)
      t3 == 10000 - RoundDiv(x2 * t4, 42 * 10000)
      t2 == 10000 - RoundDiv(x2 * t3, 20 * 10000)
      t1 == 10000 - RoundDiv(x2 * t2, 6 * 10000)
  IN  RoundDiv(x * t1, 10000)

\* math.sin(a), math.cos(a), in 1/10000.
sin(a) ==
  LET m == a % TwoPi
      h == IF m > Pi THEN m - Pi ELSE m
      q == IF h > HalfPi THEN Pi - h ELSE h
  IN  IF m > Pi THEN -SinSeries(q) ELSE SinSeries(q)

cos(a) == sin(a + HalfPi)

(***************************************************************************)
(* Geometry                                                                *)
(***************************************************************************)
\* Autodesk.Revit.DB.XYZ
XYZ(x, y, z) == [X |-> x, Y |-> y, Z |-> z]

\* XYZ.DistanceTo(p, q) < tol, decided on the squares (exact on integers).
DistanceBelow(p, q, tol) ==
  (p.X - q.X) * (p.X - q.X) + (p.Y - q.Y) * (p.Y - q.Y)
    + (p.Z - q.Z) * (p.Z - q.Z) < tol * tol

\* math.sqrt(dx ** 2 + dy ** 2): the planar distance of two points.
PlanarDistance(p, q) ==
  sqrt((q.X - p.X) * (q.X - p.X) + (q.Y - p.Y) * (q.Y - p.Y))

\* mag < 1e-9 is mag = 0 on the integer grid.
segment_direction(p1, p2) ==
  LET dx  == p2.X - p1.X
      dy  == p2.Y - p1.Y
      mag == sqrt(dx * dx + dy * dy)
  IN  IF mag = 0 THEN <<0, 0>>
      ELSE <<RoundDiv(dx * 10000, mag), RoundDiv(dy * 10000, mag)>>

\* tol = 0.01 rad
SnapTol == 100

snap_angle(angle) ==
  LET mod_angle == angle % TwoPi
  IN  IF Abs(mod_angle - 0) < SnapTol THEN 0
      ELSE IF Abs(mod_angle - HalfPi) < SnapTol THEN HalfPi
      ELSE IF Abs(mod_angle - Pi) < SnapTol THEN Pi
      ELSE IF Abs(mod_angle - ThreeHalfPi) < SnapTol THEN ThreeHalfPi
      ELSE angle

\* length (1/1000 ft) to integer millimetres: int(round(length * 304.8)).
ToMillimetres(length) == RoundDiv(length * 3048, 10000)

(***************************************************************************)
(* Wall family labels: a label is a sequence of one-character strings.     *)
(***************************************************************************)
Digits == <<"0", "1", "2", "3", "4", "5", "6", "7", "8", "9">>

IsDigit(c) == \E k \in 1..10 : Digits[k] = c

DigitValue(c) == (CHOOSE k \in 1..10 : Digits[k] = c) - 1

RECURSIVE ScanDigits(_, _, _, _)
\* re.findall(r'\d+', label) with int() applied: the maximal digit runs, in
\* order.  run is the value of the run being read, open says whether one is.
ScanDigits(label, k, run, open) ==
  IF k > Len(label) THEN (IF open THEN <<run>> ELSE <<>>)
  ELSE IF IsDigit(label[k])
       THEN ScanDigits(label, k + 1,
                       (IF open THEN 10 * run ELSE 0) + DigitValue(label[k]), TRUE)
       ELSE (IF open THEN <<run>> ELSE <<>>) \o ScanDigits(label, k + 1, 0, FALSE)

\* Mutant of extracted_ints: 10 itself qualifies.
extracted_ints_from_ten(wall_fam) ==
  SelectSeq(ScanDigits(wall_fam, 1, 0, FALSE), LAMBDA v : v >= 10)

\* [int(x) for x in re.findall(r'\d+', wall_fam) if int(x) > 10]
extracted_ints(wall_fam) ==
  SelectSeq(ScanDigits(wall_fam, 1, 0, FALSE), LAMBDA v : v > 10)

(***************************************************************************)
(* Python lists                                                            *)
(***************************************************************************)
RECURSIVE InsertIndex(_, _, _, _)
\* One insertion of a stable sort: index x goes behind every index whose key
\* does not have to come after it, so equal keys keep their input order.
InsertIndex(order, x, keys, reverse) ==
  IF order = <<>> THEN <<x>>
  ELSE LET last == order[Len(order)]
       IN  IF (IF reverse THEN keys[last] >= keys[x] ELSE keys[last] <= keys[x])
           THEN Append(order, x)
           ELSE Append(InsertIndex(SubSeq(order, 1, Len(order) - 1), x, keys, reverse),
                       last)

RECURSIVE SortPrefix(_, _, _)
SortPrefix(keys, n, reverse) ==
  IF n = 0 THEN <<>>
  ELSE InsertIndex(SortPrefix(keys, n - 1, reverse), n, keys, reverse)

\* list.sort(key=..., reverse=...) / sorted(...): the indices 1..Len(keys) in
\* sorted order.  Python's sort is stable, also with reverse=True.
SortedIndices(keys, reverse) == SortPrefix(keys, Len(keys), reverse)

\* dict.get(key) is not None
Has(element, key) == key \in DOMAIN element

(***************************************************************************)
(* The wall family loop shared by the three matchers: the first selected   *)
(* family whose first integer > 10 is within 0.5 of the measured width.    *)
(* The result is a sequence: empty for matching_wall = None.               *)
(***************************************************************************)
RECURSIVE MatchFrom(_, _, _)
MatchFrom(families, k, measured_mm) ==
  IF k > Len(families) THEN <<>>
  ELSE LET ints == extracted_ints(families[k])
       IN  IF ints = <<>> THEN MatchFrom(families, k + 1, measured_mm)
           ELSE IF 2 * Abs(measured_mm - ints[1]) <= 1 THEN <<families[k]>>
           ELSE MatchFrom(families, k + 1, measured_mm)

RECURSIVE MatchDownFrom(_, _, _)
MatchDownFrom(families, k, measured_mm) ==
  IF k < 1 THEN <<>>
  ELSE LET ints == extracted_ints(families[k])
       IN  IF ints # <<>> /\ 2 * Abs(measured_mm - ints[1]) <= 1 THEN <<families[k]>>
           ELSE MatchDownFrom(families, k - 1, measured_mm)

\* Mutant of matching_wall: the families are tried last to first.
matching_wall_last(families, measured_mm) ==
  MatchDownFrom(families, Len(families), measured_mm)

matching_wall(families, measured_mm) == MatchFrom(families, 1, measured_mm)

\* Mutant of fallback_family: the last selected family.
fallback_last(families) == families[Len(families)]

\* Line 770: selected_families[0], the singleton's wall type without a match.
fallback_family(families) == families[1]

(***************************************************************************)
(* Elements of lines_data and the filter both modes open their loop with.  *)
(***************************************************************************)
\* str.lower() on the type names get_elements_coordinates_by_layer produces.
lower(type) ==
  CASE type = "PolyLine"   -> "polyline"
    [] type = "MLine"      -> "mline"
    [] type = "Line"       -> "line"
    [] type = "Arc"        -> "arc"
    [] type = "Mesh Edge"  -> "mesh edge"
    [] type = "Solid Edge" -> "solid edge"
    [] type = "Multiline"  -> "multiline"
    [] type = "NurbSpline" -> "nurbspline"
    [] OTHER               -> type

\* Mutant of TypeAccepted: plain lines are taken as well.
TypeAcceptedLine(element) ==
  lower(element.type) \in {"polyline", "mline", "multiline", "line"}

\* element["type"].lower() in ["polyline", "mline", "multiline"]
TypeAccepted(element) ==
  lower(element.type) \in {"polyline", "mline", "multiline"}

\* pts, as a sequence holding the point list, or empty where the loop
\* continues for want of points ('points' absent and no start/end pair).
PointsOf(element) ==
  IF Has(element, "points") THEN <<element.points>>
  ELSE IF Has(element, "start") /\ Has(element, "end")
       THEN <<(<<element.start, element.end>>)>>
  ELSE <<>>

\* The element reaches the body of the loop: accepted type and len(pts) >= 2.
Processed(element) ==
  /\ TypeAccepted(element)
  /\ PointsOf(element) # <<>>
  /\ Len(PointsOf(element)[1]) >= 2

\* Mutant of BuildSegments: every other point pair only, as of a dashed line.
BuildSegmentsDashed(pts) ==
  [k \in 1..(Len(pts) \div 2) |->
     [start     |-> pts[2 * k - 1],
      end       |-> pts[2 * k],
      direction |-> segment_direction(pts[2 * k - 1], pts[2 * k]),
      length    |-> PlanarDistance(pts[2 * k - 1], pts[2 * k]),
      used      |-> FALSE]]

\* The segment list of consecutive point pairs.
BuildSegments(pts) ==
  [k \in 1..(Len(pts) - 1) |->
     [start     |-> pts[k],
      end       |-> pts[k + 1],
      direction |-> segment_direction(pts[k], pts[k + 1]),
      length    |-> PlanarDistance(pts[k], pts[k + 1]),
      used      |-> FALSE]]

Dot(d, e) == d[1] * e[1] + d[2] * e[2]

(***************************************************************************)
(* Structural mode: the candidate placements of one element (none or one). *)
(* A placement is the tuple (mid_point, angle, length, wall_fam).          *)
(***************************************************************************)
\* 0.99, against a product of two direction vectors (1/10000 each)
CollinearDot == 99000000

StructuralCollinear(pts, families) ==
  LET base_dir    == segment_direction(pts[1], pts[2])
      last        == pts[Len(pts)]
      full_length == PlanarDistance(pts[1], last)
      mid_point   == XYZ((pts[1].X + last.X) \div 2, (pts[1].Y + last.Y) \div 2,
                         (pts[1].Z + last.Z) \div 2)
      angle       == snap_angle(atan2(base_dir[2], base_dir[1]))
  IN  IF families = <<>> THEN <<>>
      ELSE <<(<<mid_point, angle, full_length, families[1]>>)>>

\* p.X * d[0] + p.Y * d[1]: the projection of a point on a direction.
Project(p, d) == p.X * d[1] + p.Y * d[2]

\* Lines 591-601: the overlap of the two segments along d1.
Overlap(seg1, seg2) ==
  LET d1     == seg1.direction
      proj1  == Project(seg1.start, d1)
      proj2  == Project(seg1.end, d1)
      projB1 == Project(seg2.start, d1)
      projB2 == Project(seg2.end, d1)
  IN  [start |-> Max(Min(proj1, proj2), Min(projB1, projB2)),
       end   |-> Min(Max(proj1, proj2), Max(projB1, projB2))]

\* Lines 612-617: the point of seg's line at projection mid_proj along d1.
PointOnLine(seg, d1, mid_proj) ==
  LET offset == RoundDiv(mid_proj - Project(seg.start, d1), 10000)
  IN  XYZ(seg.start.X + RoundDiv(d1[1] * offset, 10000),
          seg.start.Y + RoundDiv(d1[2] * offset, 10000), seg.start.Z)

\* Lines 611-623: the candidate of a matched pair.
StructuralPlacement(seg1, seg2, overlap, wall_fam) ==
  LET d1       == seg1.direction
      mid_proj == (overlap.start + overlap.end) \div 2
      on_line1 == PointOnLine(seg1, d1, mid_proj)
      on_line2 == PointOnLine(seg2, d1, mid_proj)
  IN  <<XYZ((on_line1.X + on_line2.X) \div 2, (on_line1.Y + on_line2.Y) \div 2,
            (on_line1.Z + on_line2.Z) \div 2),
        snap_angle(atan2(d1[2], d1[1])),
        RoundDiv(overlap.end - overlap.start, 10000),
        wall_fam>>

\* Lines 582-626: the two longest segments of the element.
StructuralMatch(seg1, seg2, families) ==
  LET d2          == seg2.direction
      distance_ft == RoundDiv(Abs((seg1.start.X - seg2.start.X) * (-d2[2])
                                    + (seg1.start.Y - seg2.start.Y) * d2[1]),
                              10000)
      overlap     == Overlap(seg1, seg2)
      found       == matching_wall(families, ToMillimetres(distance_ft))
  IN  IF Abs(Dot(seg1.direction, d2)) < CollinearDot THEN <<>>
      ELSE IF overlap.end - overlap.start <= 0 THEN <<>>
      ELSE IF found = <<>> THEN <<>>
      ELSE <<StructuralPlacement(seg1, seg2, overlap, found[1])>>

\* Mutant of StructuralPair: the second and third longest segments are tried
\* where there are three.
StructuralPairNext(pts, families) ==
  LET chain == BuildSegments(pts)
      order == SortedIndices([k \in DOMAIN chain |-> chain[k].length], TRUE)
  IN  IF Len(chain) < 2 THEN <<>>
      ELSE IF Len(chain) = 2
      THEN StructuralMatch(chain[order[1]], chain[order[2]], families)
      ELSE StructuralMatch(chain[order[2]], chain[order[3]], families)

\* Lines 570-581: segments.sort(key=length, reverse=True), then the first two.
StructuralPair(pts, families) ==
  LET chain == BuildSegments(pts)
      order == SortedIndices([k \in DOMAIN chain |-> chain[k].length], TRUE)
  IN  IF Len(chain) < 2 THEN <<>>
      ELSE StructuralMatch(chain[order[1]], chain[order[2]], families)

\* The body of the structural loop for one element that passed the filter.
StructuralCandidates(pts, families) ==
  LET base_dir  == segment_direction(pts[1], pts[2])
      collinear == \A k \in 2..(Len(pts) - 1) :
                     Abs(Dot(base_dir, segment_direction(pts[k], pts[k + 1])))
                       >= CollinearDot
  IN  IF collinear THEN StructuralCollinear(pts, families)
      ELSE StructuralPair(pts, families)

(***************************************************************************)
(* Architectural mode, stage by stage                                      *)
(***************************************************************************)
\* gap_tol = 0.1 (length unit)
gap_tol == 100

\* angle_tol = 0.1 rad
angle_tol == 1000

\* angle_tolerance = 0.1 rad, the grouping tolerance
angle_tolerance == 1000

\* 0.01 feet tolerance of the location check and of the deduplication
location_tol == 10

\* 0.01 rad, the angle tolerance of the deduplication
dedup_angle_tol == 100

Angle(seg) == atan2(seg.direction[2], seg.direction[1])

is_collinear(current, seg) ==
  LET angle_diff == Abs((Angle(current) - Angle(seg)) % Pi)
  IN  angle_diff < angle_tol \/ Abs(angle_diff - Pi) < angle_tol

\* Mutant of Fuse: the length is the sum of the two lengths, gaps left out.
FuseSummed(current, seg) ==
  [start     |-> current.start,
   end       |-> seg.end,
   direction |-> segment_direction(current.start, seg.end),
   length    |-> current.length + seg.length,
   used      |-> FALSE]

\* The accumulator extended to seg's end, direction and length recomputed.
Fuse(current, seg) ==
  [start     |-> current.start,
   end       |-> seg.end,
   direction |-> segment_direction(current.start, seg.end),
   length    |-> PlanarDistance(current.start, seg.end),
   used      |-> FALSE]

\* Mutant of merge_step: a segment off the accumulator's direction closes the
\* accumulator but the remembered gap stays.
merge_step_keeps_gap(current, gap_memory, seg) ==
  LET gap == PlanarDistance(current.end, seg.start)
  IN  IF is_collinear(current, seg)
      THEN IF gap < gap_tol
           THEN [branch |-> "fuse", current_seg |-> Fuse(current, seg),
                 last_gap |-> <<>>, closed |-> <<>>]
           ELSE IF gap_memory # <<>> /\ Abs(gap - gap_memory[1]) < gap_tol
           THEN [branch |-> "fuse_gap", current_seg |-> Fuse(current, seg),
                 last_gap |-> gap_memory, closed |-> <<>>]
           ELSE [branch |-> "break_gap", current_seg |-> seg,
                 last_gap |-> <<gap>>, closed |-> <<current>>]
      ELSE [branch |-> "break_angle", current_seg |-> seg,
            last_gap |-> gap_memory, closed |-> <<current>>]

\* One iteration of "for seg in segments[1:]".  last_gap is a sequence:
\* empty for None.  The result names the branch taken and gives the new
\* accumulator, the new last_gap and what is appended to merged_segments.
merge_step(current, gap_memory, seg) ==
  LET gap == PlanarDistance(current.end, seg.start)
  IN  IF is_collinear(current, seg)
      THEN IF gap < gap_tol
           THEN [branch |-> "fuse", current_seg |-> Fuse(current, seg),
                 last_gap |-> <<>>, closed |-> <<>>]
           ELSE IF gap_memory # <<>> /\ Abs(gap - gap_memory[1]) < gap_tol
           THEN [branch |-> "fuse_gap", current_seg |-> Fuse(current, seg),
                 last_gap |-> gap_memory, closed |-> <<>>]
           ELSE [branch |-> "break_gap", current_seg |-> seg,
                 last_gap |-> <<gap>>, closed |-> <<current>>]
      ELSE [branch |-> "break_angle", current_seg |-> seg,
            last_gap |-> <<>>, closed |-> <<current>>]

\* Mutant of SameGroup: the key is compared directly only.
SameGroupDirect(group_angle, angle) == Abs(group_angle - angle) < angle_tolerance

\* The grouping test of one key against one angle.
SameGroup(group_angle, angle) ==
  \/ Abs(group_angle - angle) < angle_tolerance
  \/ Abs(group_angle - angle + Pi) < angle_tolerance
  \/ Abs(group_angle - angle - Pi) < angle_tolerance

RECURSIVE GroupFrom(_, _, _)
\* direction_groups as the sequence of its items in insertion order, each
\* [angle |-> key, segs |-> indices into merged_segments]; the first key that
\* passes the test takes the segment.
GroupFrom(merged, k, groups) ==
  IF k > Len(merged) THEN groups
  ELSE LET angle == Angle(merged[k]) % Pi
           hits  == {g \in DOMAIN groups : SameGroup(groups[g].angle, angle)}
       IN  IF hits # {}
           THEN LET g == CHOOSE h \in hits : \A o \in hits : h <= o
                IN  GroupFrom(merged, k + 1,
                              [groups EXCEPT ![g].segs = Append(@, k)])
           ELSE GroupFrom(merged, k + 1,
                          Append(groups, [angle |-> angle, segs |-> <<k>>]))

group_by_direction(merged) == GroupFrom(merged, 1, <<>>)

Midpoint(seg) ==
  XYZ((seg.start.X + seg.end.X) \div 2, (seg.start.Y + seg.end.Y) \div 2,
      (seg.start.Z + seg.end.Z) \div 2)

\* Mutant of location_used: only the latest placement is looked at.
location_used_latest(accumulated, mid_point) ==
  /\ accumulated # <<>>
  /\ DistanceBelow(accumulated[Len(accumulated)][1], mid_point, location_tol)

\* "Check if there's already a wall at this location"
location_used(accumulated, mid_point) ==
  \E k \in DOMAIN accumulated : DistanceBelow(accumulated[k][1], mid_point, location_tol)

\* The candidate of a pair (seg1, seg2) of a direction group.
PairCandidate(seg1, seg2, families) ==
  LET dir_vec     == seg1.direction
      perp_vec    == <<-dir_vec[2], dir_vec[1]>>
      longer_seg  == IF seg1.length > seg2.length THEN seg1 ELSE seg2
      shorter_seg == IF seg1.length > seg2.length THEN seg2 ELSE seg1
      longer_mid  == Midpoint(longer_seg)
      dir_dot     == RoundDiv((longer_mid.X - shorter_seg.start.X) * dir_vec[1]
                                + (longer_mid.Y - shorter_seg.start.Y) * dir_vec[2],
                              10000)
      proj_point  == XYZ(shorter_seg.start.X + RoundDiv(dir_dot * dir_vec[1], 10000),
                         shorter_seg.start.Y + RoundDiv(dir_dot * dir_vec[2], 10000),
                         shorter_seg.start.Z)
      mid_point   == XYZ((longer_mid.X + proj_point.X) \div 2,
                         (longer_mid.Y + proj_point.Y) \div 2,
                         (longer_mid.Z + proj_point.Z) \div 2)
      distance    == RoundDiv(Abs((longer_mid.X * perp_vec[1] + longer_mid.Y * perp_vec[2])
                                  - (proj_point.X * perp_vec[1]
                                       + proj_point.Y * perp_vec[2])),
                              10000)
      raw_angle   == Angle(longer_seg)
      wall_angle  == IF raw_angle % Pi > HalfPi THEN raw_angle - Pi ELSE raw_angle
  IN  [mid_point   |-> mid_point,
       distance_mm |-> ToMillimetres(distance),
       matching    |-> matching_wall(families, ToMillimetres(distance)),
       wall_angle  |-> wall_angle,
       length      |-> longer_seg.length]

(***************************************************************************)
(* Deduplicator and Order Stabilizer                                       *)
(***************************************************************************)
equivalent(candidate, existing) ==
  /\ DistanceBelow(candidate[1], existing[1], location_tol)
  /\ Abs(candidate[2] - existing[2]) < dedup_angle_tol
  /\ candidate[4] = existing[4]

RECURSIVE DedupFrom(_, _, _)
DedupFrom(candidates, k, deduped) ==
  IF k > Len(candidates) THEN deduped
  ELSE IF \E e \in DOMAIN deduped : equivalent(candidates[k], deduped[e])
       THEN DedupFrom(candidates, k + 1, deduped)
       ELSE DedupFrom(candidates, k + 1, Append(deduped, candidates[k]))

RECURSIVE DedupSkipLatestFrom(_, _, _)
DedupSkipLatestFrom(candidates, k, deduped) ==
  IF k > Len(candidates) THEN deduped
  ELSE IF \E e \in 1..(Len(deduped) - 1) : equivalent(candidates[k], deduped[e])
       THEN DedupSkipLatestFrom(candidates, k + 1, deduped)
       ELSE DedupSkipLatestFrom(candidates, k + 1, Append(deduped, candidates[k]))

\* Mutant of deduplicate: the scan stops one short of the accepted list's end.
deduplicate_skip_latest(candidates) == DedupSkipLatestFrom(candidates, 1, <<>>)

deduplicate(candidates) == DedupFrom(candidates, 1, <<>>)

\* Mutant of get_placement_position: the midpoint's x alone.
get_placement_position_x(placement) == placement[1].X

\* Lines 891-892: the sort key of a placement.
get_placement_position(placement) ==
  placement[1].X * cos(placement[2]) + placement[1].Y * sin(placement[2])

\* placements.sort(key=get_placement_position)
sort_placements(list) ==
  LET order == SortedIndices([k \in DOMAIN list |-> get_placement_position(list[k])],
                             FALSE)
  IN  IF list = <<>> THEN <<>> ELSE [k \in DOMAIN list |-> list[order[k]]]

(***************************************************************************)
(* State                                                                   *)
(***************************************************************************)
VARIABLES
  sel_layer,           \* the layer combo's selection ("" for none)
  selected_families,   \* the wall family labels, in dropdown order
  structural_mode,     \* StructuralWallCheckBox.IsChecked
  architectural_mode,  \* ArchitecturalWallCheckBox.IsChecked
  lines_data,          \* the elements of the selected layer
  pc,                  \* the handler's position
  run,                 \* 1, or 2 for the tool started again on the same input
  first_output,        \* the placement list the first run ended with
  element,             \* position of "for element in lines_data" (an index)
  placements,          \* the accumulated, later the final placement list
  n_candidates,        \* len(placements) when the deduplication started
  segments,            \* the segment chain being merged
  current_seg,         \* the merge accumulator
  last_gap,            \* the remembered gap: <<>> for None, else <<gap>>
  next_seg,            \* position of "for seg in segments[1:]" (an index)
  merged_segments,
  direction_groups,
  group,               \* position of "for ... in direction_groups.items()"
  sorted_segs,         \* indices into merged_segments, longest first
  i,
  j,
  consumed,            \* per placement of this element: the segments it took
  pass,                \* merger alone: 1, or 2 when fed its own output
  first_merged,        \* merger alone: the output of the first pass
  cancelled,           \* cancelled[0], set by the progress window's button
  progress_current,    \* current, the count shown in the progress window
  t_place,             \* the "Place Walls" transaction: none, started, committed, ...
  created_walls,       \* the wall lines created so far, with their placements
  next_placement,      \* position of "for ... in placements" (an index)
  distance_mm,         \* search alone: the measured millimetres
  matched              \* search alone: the entry found, <<>> for None

vars == <<sel_layer, selected_families, structural_mode, architectural_mode,
          lines_data, pc, run, first_output, element, placements, n_candidates,
          segments, current_seg, last_gap, next_seg, merged_segments,
          direction_groups, group, sorted_segs, i, j, consumed, pass,
          first_merged, cancelled, progress_current, t_place, created_walls,
          next_placement, distance_mm,
          matched>>

inputs == <<sel_layer, selected_families, structural_mode, architectural_mode,
            lines_data>>

merge_vars == <<segments, current_seg, last_gap, next_seg, merged_segments>>

match_vars == <<direction_groups, group, sorted_segs, i, j, consumed>>

alone_vars == <<pass, first_merged, distance_mm, matched>>

pure_vars == <<distance_mm, matched>>

place_vars == <<cancelled, progress_current, t_place, created_walls, next_placement>>

(***************************************************************************)
(* Inputs                                                                  *)
(***************************************************************************)
\* Most elements of one layer and most selected families in one run.
MaxElements == 2

MaxFamilies == 2

P(x, y) == XYZ(x, y, 0)

PolyLine(pts) == [type |-> "PolyLine", points |-> pts]

ElementPool ==
  { PolyLine(<<P(0, 0)>>),                                   \* one point
    PolyLine(<<P(0, 0), P(0, 0)>>),                          \* two identical points
    PolyLine(<<P(0, 0), P(7000, 0)>>),                       \* one segment, 7 ft
    PolyLine(<<P(0, 0), P(10000, 0), P(10000, 492), P(0, 492)>>),   \* 150 mm apart
    PolyLine(<<P(0, 0), P(5000, 0), P(10000, 0)>>),          \* straight, 3 points
    [type |-> "MLine", start |-> P(0, 492), end |-> P(7000, 492)],
    [type |-> "MLine"],                                      \* no end points
    [type |-> "Line", start |-> P(0, 0), end |-> P(7000, 0)] }

LabelPool ==
  { <<"W", "-", "1", "5", "0">>,        \* thickness 150
    <<"8", "x", "1", "5", "0">>,        \* 8 is not > 10: thickness 150
    <<"G", "e", "n">> }                 \* no integer

SeqsUpTo(S, n) == UNION {[1..m -> S] : m \in 0..n}

Modes == {<<TRUE, FALSE>>, <<FALSE, TRUE>>, <<FALSE, FALSE>>}

NoSegment ==
  [start |-> P(0, 0), end |-> P(0, 0), direction |-> <<0, 0>>, length |-> 0,
   used |-> FALSE]

\* The locals of the wall creation before it runs (lines 916, 925).
PlaceFresh ==
  /\ cancelled = FALSE
  /\ progress_current = 0
  /\ t_place = "none"
  /\ created_walls = <<>>
  /\ next_placement = 0

\* The variables of the functions taken alone, at rest.
PureFresh ==
  /\ distance_mm = 0
  /\ matched = <<>>

\* The handler's locals before it runs.
LocalsFresh ==
  /\ element = 0
  /\ placements = <<>>
  /\ n_candidates = 0
  /\ segments = <<>>
  /\ current_seg = NoSegment
  /\ last_gap = <<>>
  /\ next_seg = 0
  /\ merged_segments = <<>>
  /\ direction_groups = <<>>
  /\ group = 0
  /\ sorted_segs = <<>>
  /\ i = 0
  /\ j = 0
  /\ consumed = <<>>

Init ==
  /\ sel_layer \in {"", "A-WALL"}
  /\ selected_families \in SeqsUpTo(LabelPool, MaxFamilies)
  /\ \E mode \in Modes : structural_mode = mode[1] /\ architectural_mode = mode[2]
  /\ lines_data \in SeqsUpTo(ElementPool, MaxElements)
  /\ pc = "form"
  /\ run = 1
  /\ first_output = <<>>
  /\ LocalsFresh
  /\ PlaceFresh
  /\ PureFresh
  /\ pass = 0
  /\ first_merged = <<>>

(***************************************************************************)
(* on_ok_button_click, up to the sorted placement list                     *)
(***************************************************************************)
\* Lines 515-538: no layer selected returns at once; nothing checks that a
\* wall family is selected.
OkClick ==
  /\ pc = "form"
  /\ IF sel_layer = ""
     THEN /\ pc' = "returned"
          /\ UNCHANGED element
     ELSE /\ pc' = IF structural_mode THEN "structural"
                   ELSE IF architectural_mode THEN "architectural"
                   ELSE "dedup"
          /\ element' = 1
  /\ UNCHANGED <<inputs, run, first_output, placements, n_candidates, merge_vars,
                 match_vars, alone_vars, place_vars>>

\* Lines 542-626: one iteration of the structural loop, or its end.
StructuralElement ==
  /\ pc = "structural"
  /\ IF element > Len(lines_data)
     THEN /\ pc' = "dedup"
          /\ UNCHANGED <<element, placements>>
     ELSE /\ placements' =
               IF Processed(lines_data[element])
               THEN placements \o StructuralCandidates(PointsOf(lines_data[element])[1],
                                                       selected_families)
               ELSE placements
          /\ element' = element + 1
          /\ UNCHANGED pc
  /\ UNCHANGED <<inputs, run, first_output, n_candidates, merge_vars, match_vars,
                 alone_vars, place_vars>>

\* Lines 628-661: the head of the architectural loop: its end, an element
\* skipped, or the segments built and the accumulator set to the first.
ArchitecturalElement ==
  /\ pc = "architectural"
  /\ IF element > Len(lines_data)
     THEN /\ pc' = "dedup"
          /\ UNCHANGED <<element, merge_vars, consumed>>
     ELSE IF ~Processed(lines_data[element])
     THEN /\ element' = element + 1
          /\ UNCHANGED <<pc, merge_vars, consumed>>
     ELSE /\ segments' = BuildSegments(PointsOf(lines_data[element])[1])
          /\ current_seg' = segments'[1]
          /\ next_seg' = 2
          /\ last_gap' = <<>>
          /\ merged_segments' = <<>>
          /\ consumed' = <<>>
          /\ pc' = "merge"
          /\ UNCHANGED element
  /\ UNCHANGED <<inputs, run, first_output, placements, n_candidates,
                 direction_groups, group, sorted_segs, i, j, alone_vars, place_vars>>

\* Lines 662-710: one iteration of "for seg in segments[1:]".
MergeNext ==
  /\ pc = "merge"
  /\ next_seg <= Len(segments)
  /\ LET r == merge_step(current_seg, last_gap, segments[next_seg])
     IN  /\ current_seg' = r.current_seg
         /\ last_gap' = r.last_gap
         /\ merged_segments' = merged_segments \o r.closed
  /\ next_seg' = next_seg + 1
  /\ UNCHANGED <<inputs, pc, run, first_output, element, placements, n_candidates,
                 segments, match_vars, alone_vars, place_vars>>

\* Mutant of MergeEnd: the final accumulator is not emitted.
MergeEndDropped ==
  /\ pc = "merge"
  /\ next_seg > Len(segments)
  /\ pc' = "group"
  /\ UNCHANGED <<inputs, run, first_output, element, placements, n_candidates,
                 merge_vars, match_vars, alone_vars, place_vars>>

\* Line 711: the final accumulator is emitted.
MergeEnd ==
  /\ pc = "merge"
  /\ next_seg > Len(segments)
  /\ merged_segments' = Append(merged_segments, current_seg)
  /\ pc' = "group"
  /\ UNCHANGED <<inputs, run, first_output, element, placements, n_candidates,
                 segments, current_seg, last_gap, next_seg, match_vars, alone_vars, place_vars>>

\* Lines 715-729.
GroupByDirection ==
  /\ pc = "group"
  /\ pass = 0
  /\ direction_groups' = group_by_direction(merged_segments)
  /\ group' = 1
  /\ pc' = "match"
  /\ UNCHANGED <<inputs, run, first_output, element, placements, n_candidates,
                 merge_vars, sorted_segs, i, j, consumed, alone_vars, place_vars>>

\* Line 732: the loop over the groups has ended; the next element follows.
GroupsDone ==
  /\ pc = "match"
  /\ group > Len(direction_groups)
  /\ element' = element + 1
  /\ pc' = "architectural"
  /\ UNCHANGED <<inputs, run, first_output, placements, n_candidates, merge_vars,
                 match_vars, alone_vars, place_vars>>

\* Mutant of MarkUsed: of a pair only the first segment is marked.
MarkUsedFirst(merged, indices) ==
  LET first == CHOOSE k \in indices : \A o \in indices : k <= o
  IN  [k \in DOMAIN merged |->
         IF k = first THEN [merged[k] EXCEPT !.used = TRUE] ELSE merged[k]]

\* Lines 768, 771, 869, 870: seg['used'] = True.
MarkUsed(merged, indices) ==
  [k \in DOMAIN merged |->
     IF k \in indices THEN [merged[k] EXCEPT !.used = TRUE] ELSE merged[k]]

\* Lines 733-771: a group of one segment.  selected_families[0] on an empty
\* list raises IndexError, which nothing catches.
Singleton ==
  /\ pc = "match"
  /\ group <= Len(direction_groups)
  /\ Len(direction_groups[group].segs) = 1
  /\ LET k          == direction_groups[group].segs[1]
         seg        == merged_segments[k]
         mid_point  == Midpoint(seg)
         wall_angle == Angle(seg)
         found      == matching_wall(selected_families, ToMillimetres(seg.length))
     IN  IF seg.used \/ location_used(placements, mid_point)
         THEN /\ group' = group + 1
              /\ UNCHANGED <<pc, placements, merged_segments, consumed>>
         ELSE IF found = <<>> /\ selected_families = <<>>
         THEN /\ pc' = "error"
              /\ UNCHANGED <<group, placements, merged_segments, consumed>>
         ELSE /\ placements' =
                   Append(placements,
                          <<mid_point, wall_angle, seg.length,
                            IF found # <<>> THEN found[1]
                            ELSE fallback_family(selected_families)>>)
              /\ merged_segments' = MarkUsed(merged_segments, {k})
              /\ consumed' = Append(consumed, {k})
              /\ group' = group + 1
              /\ UNCHANGED pc
  /\ UNCHANGED <<inputs, run, first_output, element, n_candidates, segments,
                 current_seg, last_gap, next_seg, direction_groups, sorted_segs, i, j,
                 alone_vars, place_vars>>

\* Lines 773-778: a group of two or more: sorted by length, longest first.
PairsBegin ==
  /\ pc = "match"
  /\ group <= Len(direction_groups)
  /\ Len(direction_groups[group].segs) >= 2
  /\ LET seg_group == direction_groups[group].segs
         order     == SortedIndices([k \in DOMAIN seg_group |->
                                       merged_segments[seg_group[k]].length], TRUE)
     IN  sorted_segs' = [k \in DOMAIN seg_group |-> seg_group[order[k]]]
  /\ i' = 1
  /\ pc' = "outer"
  /\ UNCHANGED <<inputs, run, first_output, element, placements, n_candidates,
                 merge_vars, direction_groups, group, j, consumed, alone_vars, place_vars>>

\* Lines 778-780: the head of "for i in range(len(sorted_segs))".
OuterHead ==
  /\ pc = "outer"
  /\ IF i > Len(sorted_segs)
     THEN /\ group' = group + 1
          /\ pc' = "match"
          /\ UNCHANGED <<i, j>>
     ELSE IF merged_segments[sorted_segs[i]].used
     THEN /\ i' = i + 1
          /\ UNCHANGED <<pc, group, j>>
     ELSE /\ j' = i + 1
          /\ pc' = "inner"
          /\ UNCHANGED <<i, group>>
  /\ UNCHANGED <<inputs, run, first_output, element, placements, n_candidates,
                 merge_vars, direction_groups, sorted_segs, consumed, alone_vars, place_vars>>

\* Lines 782-874: one iteration of "for j in range(i + 1, ...)", or the end of
\* that loop and the test that follows it.  A match breaks the inner loop and,
\* sorted_segs[i] being used then, the outer loop too.
InnerStep ==
  /\ pc = "inner"
  /\ IF j > Len(sorted_segs)
     THEN /\ IF merged_segments[sorted_segs[i]].used
             THEN /\ group' = group + 1
                  /\ pc' = "match"
                  /\ UNCHANGED i
             ELSE /\ i' = i + 1
                  /\ pc' = "outer"
                  /\ UNCHANGED group
          /\ UNCHANGED <<j, placements, merged_segments, consumed>>
     ELSE LET seg1 == merged_segments[sorted_segs[i]]
              seg2 == merged_segments[sorted_segs[j]]
              c    == PairCandidate(seg1, seg2, selected_families)
          IN  IF \/ seg1.used
                 \/ seg2.used
                 \/ location_used(placements, c.mid_point)
                 \/ c.matching = <<>>
              THEN /\ j' = j + 1
                   /\ UNCHANGED <<pc, i, group, placements, merged_segments, consumed>>
              ELSE /\ placements' =
                        Append(placements,
                               <<c.mid_point, c.wall_angle, c.length, c.matching[1]>>)
                   /\ merged_segments' =
                        MarkUsed(merged_segments, {sorted_segs[i], sorted_segs[j]})
                   /\ consumed' = Append(consumed, {sorted_segs[i], sorted_segs[j]})
                   /\ group' = group + 1
                   /\ pc' = "match"
                   /\ UNCHANGED <<i, j>>
  /\ UNCHANGED <<inputs, run, first_output, element, n_candidates, segments,
                 current_seg, last_gap, next_seg, direction_groups, sorted_segs,
                 alone_vars, place_vars>>

\* Lines 876-888.
Deduplicate ==
  /\ pc = "dedup"
  /\ n_candidates' = Len(placements)
  /\ placements' = deduplicate(placements)
  /\ pc' = "sort"
  /\ UNCHANGED <<inputs, run, first_output, element, merge_vars, match_vars,
                 alone_vars, place_vars>>

\* Mutant of SortPlacements: an unstable sort, which may leave placements of
\* equal keys in any order.
SortPlacementsUnstable ==
  /\ pc = "sort"
  /\ IF placements = <<>>
     THEN UNCHANGED placements
     ELSE \E perm \in Permutations(DOMAIN placements) :
            /\ \A a, b \in DOMAIN placements :
                 a < b => get_placement_position(placements[perm[a]])
                            <= get_placement_position(placements[perm[b]])
            /\ placements' = [k \in DOMAIN placements |-> placements[perm[k]]]
  /\ pc' = "done"
  /\ UNCHANGED <<inputs, run, first_output, element, n_candidates, merge_vars,
                 match_vars, alone_vars, place_vars>>

\* Lines 890-894.
SortPlacements ==
  /\ pc = "sort"
  /\ placements' = sort_placements(placements)
  /\ pc' = "done"
  /\ UNCHANGED <<inputs, run, first_output, element, n_candidates, merge_vars,
                 match_vars, alone_vars, place_vars>>

\* The tool is started again on the same drawing, layer, families and mode:
\* every local is created afresh (line 538 and on).
Rerun ==
  /\ pc = "done"
  /\ run = 1
  /\ first_output' = placements
  /\ run' = 2
  /\ pc' = "form"
  /\ element' = 0
  /\ placements' = <<>>
  /\ n_candidates' = 0
  /\ segments' = <<>>
  /\ current_seg' = NoSegment
  /\ last_gap' = <<>>
  /\ next_seg' = 0
  /\ merged_segments' = <<>>
  /\ direction_groups' = <<>>
  /\ group' = 0
  /\ sorted_segs' = <<>>
  /\ i' = 0
  /\ j' = 0
  /\ consumed' = <<>>
  /\ UNCHANGED <<inputs, alone_vars, place_vars>>

Next ==
  \/ OkClick
  \/ StructuralElement
  \/ ArchitecturalElement
  \/ MergeNext
  \/ MergeEnd
  \/ GroupByDirection
  \/ GroupsDone
  \/ Singleton
  \/ PairsBegin
  \/ OuterHead
  \/ InnerStep
  \/ Deduplicate
  \/ SortPlacements
  \/ Rerun

Spec == Init /\ [][Next]_vars

(***************************************************************************)
(* The Collinear Merger alone (lines 655-713), on segment chains that need *)
(* not come from consecutive points, and fed its own output once.          *)
(***************************************************************************)
\* Longest chain.
MaxChain == 3

\* A segment as line 647 builds it.
Segment(p_start, p_end) ==
  [start     |-> p_start,
   end       |-> p_end,
   direction |-> segment_direction(p_start, p_end),
   length    |-> PlanarDistance(p_start, p_end),
   used      |-> FALSE]

ChainSegments ==
  { Segment(P(0, 0), P(5000, 0)),            \* three pieces of 5 ft along x,
    Segment(P(5050, 0), P(10050, 0)),        \*   0.05 ft apart
    Segment(P(10100, 0), P(15100, 0)),
    Segment(P(5500, 0), P(10000, 0)),        \* 0.5 ft behind the first
    Segment(P(10500, 0), P(15000, 0)),       \*   and 0.5 ft further
    Segment(P(5000, 0), P(10000, 600)),      \* 0.119 rad off the x axis
    Segment(P(10000, 600), P(15000, 750)),   \* 0.030 rad off the x axis
    Segment(P(5000, 0), P(5000, 5000)),      \* perpendicular
    Segment(P(5000, 0), P(0, 0)) }           \* the first one reversed

Chains == UNION {[1..n -> ChainSegments] : n \in 1..MaxChain}

InitMerge ==
  /\ sel_layer = ""
  /\ selected_families = <<>>
  /\ structural_mode = FALSE
  /\ architectural_mode = FALSE
  /\ lines_data = <<>>
  /\ pc = "merge"
  /\ run = 1
  /\ first_output = <<>>
  /\ element = 0
  /\ placements = <<>>
  /\ n_candidates = 0
  /\ segments \in Chains
  /\ current_seg = segments[1]
  /\ last_gap = <<>>
  /\ next_seg = 2
  /\ merged_segments = <<>>
  /\ direction_groups = <<>>
  /\ group = 0
  /\ sorted_segs = <<>>
  /\ i = 0
  /\ j = 0
  /\ consumed = <<>>
  /\ pass = 1
  /\ first_merged = <<>>
  /\ PlaceFresh
  /\ PureFresh

\* The merged list becomes the segment list of a second fold (lines 655-661
\* again; line 713 for an empty list).
Remerge ==
  /\ pc = "group"
  /\ pass = 1
  /\ first_merged' = merged_segments
  /\ pass' = 2
  /\ segments' = merged_segments
  /\ last_gap' = <<>>
  /\ merged_segments' = <<>>
  /\ IF merged_segments # <<>>
     THEN /\ current_seg' = merged_segments[1]
          /\ next_seg' = 2
          /\ pc' = "merge"
     ELSE UNCHANGED <<current_seg, next_seg, pc>>
  /\ UNCHANGED <<inputs, run, first_output, element, placements, n_candidates,
                 match_vars, place_vars, pure_vars>>

NextMerge ==
  \/ MergeNext
  \/ MergeEnd
  \/ Remerge

SpecMerge == InitMerge /\ [][NextMerge]_vars

(***************************************************************************)
(* on_ok_button_click, the wall creation (lines 908-1041)                   *)
(***************************************************************************)
\* doc.Application.ShortCurveTolerance, in 1/1000 ft (0.00256 ft, rounded up).
ShortCurveTolerance == 3

\* The two ends of a created wall are compared within 0.005 ft.
created_tol == 5

\* The floor test of lines 957 and 975, without the floor.
too_short_never(length) == length < 0

\* Lines 957 and 975: the length is below the host's floor.
too_short(length) == length < ShortCurveTolerance

\* Lines 959-965: the two ends of the wall line of a placement.
WallLine(placement) ==
  LET pt == placement[1]
      dx == RoundDiv(placement[3] * cos(placement[2]), 20000)
      dy == RoundDiv(placement[3] * sin(placement[2]), 20000)
  IN  <<XYZ(pt.X - dx, pt.Y - dy, pt.Z), XYZ(pt.X + dx, pt.Y + dy, pt.Z)>>

\* Lines 977-982: a wall created in this run has both ends at this line's.
already_created(walls, wall_line) ==
  \E k \in DOMAIN walls :
    /\ DistanceBelow(wall_line[1], walls[k].line[1], created_tol)
    /\ DistanceBelow(wall_line[2], walls[k].line[2], created_tol)

\* What the host may answer in one iteration: the family symbol is not found
\* (954), CreateBound raises (972), the document holds the wall already (983),
\* Wall.Create raises (994), or the wall is created.
HostOutcomes == {"no_symbol", "line_error", "wall_exists", "create_error", "created"}

\* Lines 908-949: the progress window is shown and the transaction started;
\* the handler returns if the transaction does not start (lines 926-930).
PlaceBegin ==
  /\ pc = "done"
  /\ run = 1
  /\ next_placement' = 1
  /\ created_walls' = <<>>
  /\ cancelled' = FALSE
  /\ progress_current' = 0
  /\ \E started \in BOOLEAN :
       IF started
       THEN pc' = "place" /\ t_place' = "started"
       ELSE pc' = "returned" /\ t_place' = "none"
  /\ UNCHANGED <<inputs, run, first_output, element, placements, n_candidates,
                 merge_vars, match_vars, alone_vars>>

\* Mutant of PlaceStep: the cancel flag is not read at the head of the loop.
PlaceStepDeaf ==
  /\ pc = "place"
  /\ IF next_placement > Len(placements)
     THEN /\ pc' = "placed"
          /\ UNCHANGED place_vars
     ELSE /\ next_placement' = next_placement + 1
          /\ UNCHANGED <<pc, t_place>>
          /\ \E host \in HostOutcomes :
               LET placement == placements[next_placement]
                   wall_line == WallLine(placement)
               IN  IF \/ host # "created"
                      \/ too_short(placement[3])
                      \/ too_short(PlanarDistance(wall_line[1], wall_line[2]))
                      \/ already_created(created_walls, wall_line)
                   THEN UNCHANGED <<created_walls, cancelled, progress_current>>
                   ELSE /\ created_walls' =
                             Append(created_walls,
                                    [wall |-> placement, line |-> wall_line])
                        /\ progress_current' = progress_current + 1
                        /\ cancelled' \in {cancelled, TRUE}
  /\ UNCHANGED <<inputs, run, first_output, element, placements, n_candidates,
                 merge_vars, match_vars, alone_vars>>

\* Lines 950-1026: one iteration of "for ... in placements", or its end.  The
\* Cancel button's click is handled in DoEvents (line 1026) alone, which only
\* an iteration that created a wall reaches.
PlaceStep ==
  /\ pc = "place"
  /\ IF next_placement > Len(placements) \/ cancelled
     THEN /\ pc' = "placed"
          /\ UNCHANGED place_vars
     ELSE /\ next_placement' = next_placement + 1
          /\ UNCHANGED <<pc, t_place>>
          /\ \E host \in HostOutcomes :
               LET placement == placements[next_placement]
                   wall_line == WallLine(placement)
               IN  IF \/ host # "created"
                      \/ too_short(placement[3])
                      \/ too_short(PlanarDistance(wall_line[1], wall_line[2]))
                      \/ already_created(created_walls, wall_line)
                   THEN UNCHANGED <<created_walls, cancelled, progress_current>>
                   ELSE /\ created_walls' =
                             Append(created_walls,
                                    [wall |-> placement, line |-> wall_line])
                        /\ progress_current' = progress_current + 1
                        /\ cancelled' \in BOOLEAN
  /\ UNCHANGED <<inputs, run, first_output, element, placements, n_candidates,
                 merge_vars, match_vars, alone_vars>>

\* Line 1029: t_place.Commit() returns or raises, whether or not the loop
\* was left by the cancel flag.
PlaceCommit ==
  /\ pc = "placed"
  /\ t_place' \in {"committed", "commit_raised"}
  /\ pc' = "committing"
  /\ UNCHANGED <<inputs, run, first_output, element, placements, n_candidates,
                 merge_vars, match_vars, alone_vars, cancelled, progress_current,
                 created_walls, next_placement>>

\* Lines 1030-1041: after a commit that raised, t_place.RollBack() returns or
\* raises; the progress window is closed.
PlaceClose ==
  /\ pc = "committing"
  /\ IF t_place = "commit_raised"
     THEN t_place' \in {"rolled_back", "rollback_raised"}
     ELSE UNCHANGED t_place
  /\ pc' = "closed"
  /\ UNCHANGED <<inputs, run, first_output, element, placements, n_candidates,
                 merge_vars, match_vars, alone_vars, cancelled, progress_current,
                 created_walls, next_placement>>

(***************************************************************************)
(* The handler on one layer element of a wider kind                        *)
(***************************************************************************)
\* Most elements of the layer here.
MaxWide == 1

Edge(type, p_start, p_end) == [type |-> type, start |-> p_start, end |-> p_end]

WidePool ==
  { PolyLine(<<P(0, 0), P(7000, 0), P(7000, 2)>>),    \* 7 ft and a 0.002 ft leg
    PolyLine(<<P(0, 0), P(7000, 0), P(7000, 5000)>>), \* 7 ft and a 5 ft leg
    PolyLine(<<P(0, 0), P(10000, 0), P(10000, 492), P(0, 492), P(0, 2000),
               P(10000, 2000), P(10000, 2492), P(0, 2492)>>),  \* two walls, 150 mm
    PolyLine(<<P(0, 0), P(10000, -50)>>),             \* 0.005 rad below the x axis
    PolyLine(<<P(0, 0), P(10000, 50)>>),              \* 0.005 rad above the x axis
    PolyLine(<<P(0, 0), P(10000, 300)>>),             \* 0.03 rad above the x axis
    Edge("Multiline", P(0, 0), P(7000, 0)),
    Edge("Line", P(0, 0), P(7000, 0)),
    Edge("Arc", P(0, 0), P(7000, 0)),
    Edge("Mesh Edge", P(0, 0), P(7000, 0)),
    Edge("Solid Edge", P(0, 0), P(7000, 0)),
    Edge("NurbSpline", P(0, 0), P(7000, 0)) }

InitWide ==
  /\ sel_layer = "A-WALL"
  /\ selected_families \in SeqsUpTo(LabelPool, MaxFamilies)
  /\ \E mode \in Modes : structural_mode = mode[1] /\ architectural_mode = mode[2]
  /\ lines_data \in SeqsUpTo(WidePool, MaxWide)
  /\ pc = "form"
  /\ run = 1
  /\ first_output = <<>>
  /\ LocalsFresh
  /\ PlaceFresh
  /\ PureFresh
  /\ pass = 0
  /\ first_merged = <<>>

NextWide ==
  \/ OkClick
  \/ StructuralElement
  \/ ArchitecturalElement
  \/ MergeNext
  \/ MergeEnd
  \/ GroupByDirection
  \/ GroupsDone
  \/ Singleton
  \/ PairsBegin
  \/ OuterHead
  \/ InnerStep
  \/ Deduplicate
  \/ SortPlacements
  \/ PlaceBegin
  \/ PlaceStep
  \/ PlaceCommit
  \/ PlaceClose

SpecWide == InitWide /\ [][NextWide]_vars

(***************************************************************************)
(* The handler on a layer of mixed element types (lines 543, 629)          *)
(***************************************************************************)
\* Most elements of the layer here.
MaxMixed == 2

MixedPool ==
  { PolyLine(<<P(0, 0), P(10000, 0), P(10000, 492), P(0, 492)>>),
    Edge("MLine", P(0, 2000), P(7000, 2000)),
    Edge("Multiline", P(0, 4000), P(7000, 4000)),
    Edge("Line", P(0, 6000), P(7000, 6000)),
    Edge("Arc", P(0, 6000), P(7000, 6000)),
    Edge("Mesh Edge", P(0, 6000), P(7000, 6000)),
    Edge("Solid Edge", P(0, 6000), P(7000, 6000)),
    Edge("NurbSpline", P(0, 6000), P(7000, 6000)) }

\* The dropdown here: a 150 mm family and one without a number.
MixedFamilies == <<(<<"W", "-", "1", "5", "0">>), (<<"G", "e", "n">>)>>

InitMixed ==
  /\ sel_layer = "A-WALL"
  /\ selected_families = MixedFamilies
  /\ \E mode \in Modes : structural_mode = mode[1] /\ architectural_mode = mode[2]
  /\ lines_data \in SeqsUpTo(MixedPool, MaxMixed)
  /\ pc = "form"
  /\ run = 1
  /\ first_output = <<>>
  /\ LocalsFresh
  /\ PlaceFresh
  /\ PureFresh
  /\ pass = 0
  /\ first_merged = <<>>

NextMixed ==
  \/ OkClick
  \/ StructuralElement
  \/ ArchitecturalElement
  \/ MergeNext
  \/ MergeEnd
  \/ GroupByDirection
  \/ GroupsDone
  \/ Singleton
  \/ PairsBegin
  \/ OuterHead
  \/ InnerStep
  \/ Deduplicate
  \/ SortPlacements

SpecMixed == InitMixed /\ [][NextMixed]_vars

(***************************************************************************)
(* The handler in structural mode (lines 540-626)                          *)
(***************************************************************************)
\* Most elements of the layer here.
MaxStructural == 2

StructuralPool ==
  { PolyLine(<<P(0, 0), P(7000, 0)>>),                          \* one segment
    PolyLine(<<P(0, 0), P(10000, 0), P(20000, 1000)>>),         \* 0.1 rad bend
    PolyLine(<<P(0, 0), P(10000, 0), P(10000, 492), P(0, 492)>>),   \* 150 mm apart
    PolyLine(<<P(0, 0), P(7000, 0), P(7000, 5000)>>),           \* a corner
    PolyLine(<<P(0, 0), P(5000, 0), P(5000, 492), P(10000, 492)>>), \* no overlap
    PolyLine(<<P(0, 0), P(10000, 0), P(10000, 2000), P(0, 2000), P(0, 1508),
               P(8000, 1508)>>),       \* the longest two 2 ft apart, a third 150 mm
    Edge("MLine", P(0, 3000), P(7000, 3000)) }

InitStructural ==
  /\ sel_layer = "A-WALL"
  /\ selected_families \in SeqsUpTo(LabelPool, MaxFamilies)
  /\ structural_mode = TRUE
  /\ architectural_mode = FALSE
  /\ lines_data \in SeqsUpTo(StructuralPool, MaxStructural)
  /\ pc = "form"
  /\ run = 1
  /\ first_output = <<>>
  /\ LocalsFresh
  /\ PlaceFresh
  /\ PureFresh
  /\ pass = 0
  /\ first_merged = <<>>

NextStructural ==
  \/ OkClick
  \/ StructuralElement
  \/ Deduplicate
  \/ SortPlacements

SpecStructural == InitStructural /\ [][NextStructural]_vars

(***************************************************************************)
(* The catalog search alone (lines 756-764, 845-853, 604-609)              *)
(***************************************************************************)
\* Most entries of a catalog here.
MaxCatalog == 2

SearchLabels ==
  { <<"W", "-", "1", "5", "0">>,                 \* 150
    <<"8", "x", "1", "5", "0">>,                 \* 8, then 150
    <<"0", "1", "0", "-", "1", "5", "0">>,       \* 010, then 150
    <<"1", "5", "0", "m", "m", "2", "0", "0">>,  \* 150, then 200
    <<"2", "0", "0">>,                           \* 200
    <<"1", "1">>,                                \* 11
    <<"W", "1", "0">>,                           \* 10 alone
    <<"G", "e", "n">> }                          \* no digit

Measures == {0, 10, 11, 150, 151, 200}

\* The variables of the handler, at rest while a function is taken alone.
HandlerIdle ==
  /\ sel_layer = ""
  /\ structural_mode = FALSE
  /\ architectural_mode = FALSE
  /\ lines_data = <<>>
  /\ run = 1
  /\ first_output = <<>>
  /\ LocalsFresh
  /\ PlaceFresh
  /\ pass = 0
  /\ first_merged = <<>>

InitSearch ==
  /\ HandlerIdle
  /\ selected_families \in SeqsUpTo(SearchLabels, MaxCatalog)
  /\ distance_mm \in Measures
  /\ matched = <<>>
  /\ pc = "search"

\* The loop "for wall_fam in selected_families" with its break.
Search ==
  /\ pc = "search"
  /\ matched' = matching_wall(selected_families, distance_mm)
  /\ pc' = "searched"
  /\ UNCHANGED <<inputs, run, first_output, element, placements, n_candidates,
                 merge_vars, match_vars, pass, first_merged, place_vars,
                 distance_mm>>

NextSearch == Search

SpecSearch == InitSearch /\ [][NextSearch]_vars

(***************************************************************************)
(* The Direction Grouper alone (lines 715-729)                             *)
(***************************************************************************)
\* Most merged segments of one element here.
MaxMerged == 4

DirectionSegments ==
  { Segment(P(0, 0), P(10000, 0)),       \* along x
    Segment(P(10000, 0), P(0, 0)),       \* against x: pi, 0 modulo pi
    Segment(P(0, 0), P(10000, 800)),     \* 0.080 rad
    Segment(P(0, 0), P(10000, -800)),    \* -0.080 rad, 3.062 modulo pi
    Segment(P(0, 0), P(10000, 1500)),    \* 0.149 rad
    Segment(P(0, 0), P(0, 10000)) }      \* pi/2

InitGroup ==
  /\ HandlerIdle
  /\ PureFresh
  /\ selected_families = <<>>
  /\ pc = "group"

\* The merged segments of the element grouped: any list of them.
MergedListed ==
  \E n \in 1..MaxMerged :
    \E list \in [1..n -> DirectionSegments] :
      /\ pc = "group"
      /\ merged_segments = <<>>
      /\ merged_segments' = list
      /\ UNCHANGED <<inputs, pc, run, first_output, element, placements,
                     n_candidates, segments, current_seg, last_gap, next_seg,
                     match_vars, alone_vars, place_vars>>

NextGroup ==
  \/ MergedListed
  \/ GroupByDirection

SpecGroup == InitGroup /\ [][NextGroup]_vars

(***************************************************************************)
(* Properties                                                              *)
(***************************************************************************)
Range(f) == {f[k] : k \in DOMAIN f}

\* Two placements the Deduplicator must not both keep: midpoints less than
\* 0.01 apart, angles less than 0.01 rad apart, the same wall type.
NearDuplicates(p, q) ==
  /\ (p[1].X - q[1].X) * (p[1].X - q[1].X) + (p[1].Y - q[1].Y) * (p[1].Y - q[1].Y)
       + (p[1].Z - q[1].Z) * (p[1].Z - q[1].Z) < 10 * 10
  /\ Abs(p[2] - q[2]) < 100
  /\ p[4] = q[4]

\* C1: when the inference stage has ended (deduplicated and sorted), no two
\* distinct placements of the final list are near duplicates, in any mode.
C1_DedupInvariant ==
  pc = "done" =>
    \A a, b \in DOMAIN placements :
      a # b => ~NearDuplicates(placements[a], placements[b])

\* C1 witness: a final list that is shorter than the accumulated list: the
\* scan has discarded a candidate that coincided with an accepted one.
C1_Witness ==
  /\ pc = "done"
  /\ placements # <<>>
  /\ n_candidates > Len(placements)

\* The handler is between the groups of one element, or past them.
Matching == pc \in {"match", "outer", "inner"}

\* C2, state part: the placements of one element take disjoint sets of
\* segments, one segment for a singleton and two for a pair, and a segment is
\* flagged used exactly when a placement took it.
C2_Disjoint ==
  Matching =>
    /\ \A a, b \in DOMAIN consumed : a # b => consumed[a] \cap consumed[b] = {}
    /\ \A a \in DOMAIN consumed :
         \E g \in DOMAIN direction_groups :
           /\ consumed[a] \subseteq Range(direction_groups[g].segs)
           /\ Cardinality(consumed[a]) =
                (IF Len(direction_groups[g].segs) = 1 THEN 1 ELSE 2)
    /\ \A k \in DOMAIN merged_segments :
         merged_segments[k].used <=> \E a \in DOMAIN consumed : k \in consumed[a]
    /\ Len(consumed) <= Len(placements)

\* C2, step part: within one element a used flag never goes back to false,
\* and a step that emits a placement takes only segments that were unused.
C2_Step ==
  (Matching /\ pc' \in {"match", "outer", "inner"}) =>
    /\ \A k \in DOMAIN merged_segments :
         merged_segments[k].used => merged_segments'[k].used
    /\ Len(placements') > Len(placements) =>
         /\ Len(placements') = Len(placements) + 1
         /\ Len(consumed') = Len(consumed) + 1
         /\ \A k \in consumed'[Len(consumed')] :
              ~merged_segments[k].used /\ merged_segments'[k].used

\* C2: no segment is used twice.
C2_NoDoubleUse == [](C2_Disjoint) /\ [][C2_Step]_vars

\* C2 witness: one element has given a pair placement and a singleton one.
C2_Witness ==
  /\ Matching
  /\ \E a, b \in DOMAIN consumed :
       Cardinality(consumed[a]) = 2 /\ Cardinality(consumed[b]) = 1
  /\ \E k \in DOMAIN merged_segments : merged_segments[k].used

FirstOfThickness(families, t) ==
  LET hits == {k \in DOMAIN families :
                 /\ extracted_ints(families[k]) # <<>>
                 /\ extracted_ints(families[k])[1] = t}
  IN  IF hits = {} THEN <<>>
      ELSE <<families[CHOOSE k \in hits : \A o \in hits : k <= o]>>

\* The group whose processing has just ended, where there is one.
GroupEnded == pc = "match" /\ group >= 2

\* Some placement of the list lies less than 0.01 from the point p.
PlacedNear(list, p) ==
  \E k \in DOMAIN list :
    (list[k][1].X - p.X) * (list[k][1].X - p.X)
      + (list[k][1].Y - p.Y) * (list[k][1].Y - p.Y)
      + (list[k][1].Z - p.Z) * (list[k][1].Z - p.Z) < 10 * 10

\* The last placement came from the segments of set ks of this element.
LastTook(ks) == consumed # <<>> /\ consumed[Len(consumed)] = ks

\* The placements accumulated before the group that took ks, if it took any.
Earlier(ks) ==
  IF LastTook(ks) THEN SubSeq(placements, 1, Len(placements) - 1) ELSE placements

AverageMidpoint(a, b) ==
  XYZ((Midpoint(a).X + Midpoint(b).X) \div 2, (Midpoint(a).Y + Midpoint(b).Y) \div 2,
      (Midpoint(a).Z + Midpoint(b).Z) \div 2)

\* Two parallel segments of one positive length that face each other without
\* longitudinal shift: the line through their midpoints is perpendicular to
\* them.
FacingPair(a, b) ==
  /\ a.length = b.length
  /\ a.length > 0
  /\ a.direction[1] * b.direction[2] = a.direction[2] * b.direction[1]
  /\ (Midpoint(b).X - Midpoint(a).X) * a.direction[1]
       + (Midpoint(b).Y - Midpoint(a).Y) * a.direction[2] = 0

\* The perpendicular separation of a facing pair, in millimetres.
SeparationMm(a, b) == ToMillimetres(PlanarDistance(Midpoint(a), Midpoint(b)))

\* The case of C4 for the group g of segments a and b.
WidthMatchCase(a, b) ==
  /\ FacingPair(merged_segments[a], merged_segments[b])
  /\ FirstOfThickness(selected_families,
                      SeparationMm(merged_segments[a], merged_segments[b])) # <<>>
  /\ ~PlacedNear(Earlier({a, b}),
                 AverageMidpoint(merged_segments[a], merged_segments[b]))

\* What C4 promises for the segments a and b.
WidthMatchResult(a, b) ==
  /\ LastTook({a, b})
  /\ placements[Len(placements)][1]
       = AverageMidpoint(merged_segments[a], merged_segments[b])
  /\ placements[Len(placements)][3] = merged_segments[a].length
  /\ placements[Len(placements)][4]
       = FirstOfThickness(selected_families,
                          SeparationMm(merged_segments[a], merged_segments[b]))[1]
  /\ merged_segments[a].used
  /\ merged_segments[b].used

\* C4: a direction group of exactly two facing parallel segments of equal
\* length L, t millimetres apart, with no earlier placement near the candidate
\* midpoint and W the first catalog entry of thickness t, gives exactly one
\* placement, of type W and length L at the average of the two midpoints, and
\* both segments end used.
C4_WidthMatch ==
  GroupEnded =>
    LET segs == direction_groups[group - 1].segs
    IN  (Len(segs) = 2 /\ WidthMatchCase(segs[1], segs[2]))
          => WidthMatchResult(segs[1], segs[2])

\* C4 witness: such a group has been processed with a catalog that holds two
\* entries of the measured thickness.
C4_Witness ==
  /\ GroupEnded
  /\ Len(direction_groups[group - 1].segs) = 2
  /\ WidthMatchCase(direction_groups[group - 1].segs[1],
                    direction_groups[group - 1].segs[2])
  /\ Len(selected_families) = 2
  /\ selected_families[1] # selected_families[2]
  /\ extracted_ints(selected_families[1]) = extracted_ints(selected_families[2])

\* The singleton group that has just ended took its segment k.
SingletonEmitted(k) ==
  /\ GroupEnded
  /\ direction_groups[group - 1].segs = <<k>>
  /\ LastTook({k})

\* The wall type C6 promises for a standalone segment.
SingletonType(seg) ==
  IF FirstOfThickness(selected_families, ToMillimetres(seg.length)) # <<>>
  THEN FirstOfThickness(selected_families, ToMillimetres(seg.length))[1]
  ELSE selected_families[1]

\* C6: the placement a singleton group emits carries the first catalog entry
\* whose parsed thickness equals the segment's length in millimetres, and the
\* first-provided entry where none does, parseable or not.
C6_FallbackType ==
  \A k \in DOMAIN merged_segments :
    SingletonEmitted(k) =>
      /\ placements[Len(placements)][4] = SingletonType(merged_segments[k])
      /\ placements[Len(placements)][3] = merged_segments[k].length

\* C6 witness: one segment of length 7 and a catalog of one entry without a
\* parseable thickness have given exactly one placement carrying that entry.
C6_Witness ==
  /\ SingletonEmitted(1)
  /\ merged_segments[1].length = 7000
  /\ Len(selected_families) = 1
  /\ extracted_ints(selected_families[1]) = <<>>
  /\ Len(placements) = 1
  /\ placements[1][4] = selected_families[1]

\* The Width Matcher is at a direction group of one segment.
AtSingleton ==
  /\ pc = "match"
  /\ group <= Len(direction_groups)
  /\ Len(direction_groups[group].segs) = 1

\* The step over the standalone segment k emits exactly one placement, at the
\* segment's midpoint, and leaves the segment used.
EmitsOne(k) ==
  /\ Len(placements') = Len(placements) + 1
  /\ SubSeq(placements', 1, Len(placements)) = placements
  /\ placements'[Len(placements')][1] = Midpoint(merged_segments[k])
  /\ merged_segments'[k].used
  /\ pc' = "match"

\* The step over the standalone segment k emits nothing and leaves it unused.
EmitsNone(k) ==
  /\ placements' = placements
  /\ ~merged_segments'[k].used

\* C7 as the specification states it: every standalone segment gives exactly
\* one placement and ends used, whatever was accumulated before it (a catalog
\* being there to take the wall type from).
C7_AlwaysOnePlacement ==
  [][(AtSingleton /\ selected_families # <<>>)
       => EmitsOne(direction_groups[group].segs[1])]_vars

\* C7, as the code has it: a standalone segment whose midpoint is at least
\* 0.01 from every placement accumulated so far gives exactly one placement
\* and ends used when the catalog has an entry; one whose midpoint is within
\* 0.01 of an accumulated placement gives none and stays unused; with no
\* catalog entry and no match the step ends in the error of line 770.
C7_OnePlacementUnlessPlaced ==
  [][AtSingleton =>
       LET k == direction_groups[group].segs[1]
       IN  IF PlacedNear(placements, Midpoint(merged_segments[k]))
           THEN EmitsNone(k) /\ pc' = "match"
           ELSE IF selected_families # <<>>
           THEN EmitsOne(k)
           ELSE EmitsNone(k) /\ pc' = "error"]_vars

\* C7 witness: with a catalog at hand, a standalone segment has been passed
\* over without a placement, a placement of an earlier element lying at its
\* midpoint, and stays unused.
C7_Witness ==
  /\ GroupEnded
  /\ Len(direction_groups[group - 1].segs) = 1
  /\ ~merged_segments[direction_groups[group - 1].segs[1]].used
  /\ PlacedNear(placements,
                Midpoint(merged_segments[direction_groups[group - 1].segs[1]]))
  /\ element = 2
  /\ selected_families # <<>>

\* An element with fewer than two points, or with exactly two identical ones.
Degenerate(e) ==
  LET pts == IF "points" \in DOMAIN e THEN e.points
             ELSE IF {"start", "end"} \subseteq DOMAIN e THEN <<e.start, e.end>>
             ELSE <<>>
  IN  Len(pts) < 2 \/ (Len(pts) = 2 /\ pts[1] = pts[2])

\* C8: a degenerate element contributes no segment and no placement, in both
\* modes: the loop passes to the next element with the placement list as it
\* was.
C8_DegenerateContributesNothing ==
  [][(/\ pc \in {"structural", "architectural"}
      /\ element <= Len(lines_data)
      /\ Degenerate(lines_data[element]))
       => (placements' = placements /\ element' = element + 1 /\ pc' = pc)]_vars

\* C10: the inference never raises.
C10_NoFatalError == pc # "error"

\* The angular difference of two directions modulo pi, as the distance on
\* the circle of circumference pi, is below 0.1 rad.
CollinearModPi(d, e) ==
  LET diff == (atan2(d[2], d[1]) - atan2(e[2], e[1])) % Pi
  IN  Min(diff, Pi - diff) < 1000

\* The planar gap from the point p to the start of the segment seg.
GapTo(p, seg) ==
  sqrt((seg.start.X - p.X) * (seg.start.X - p.X)
         + (seg.start.Y - p.Y) * (seg.start.Y - p.Y))

\* The first fold has ended on the chain held in segments.
Merged == pc = "group" /\ pass = 1

\* Every segment of the chain after the first is collinear with the
\* accumulator before it, which runs from the first start to the end of the
\* segment before, and starts less than 0.1 from the accumulator's end.
ChainFuses ==
  \A k \in 2..Len(segments) :
    /\ CollinearModPi(segment_direction(segments[1].start, segments[k - 1].end),
                      segments[k].direction)
    /\ GapTo(segments[k - 1].end, segments[k]) < 100

\* C5: a chain every segment of which is collinear with the accumulator and
\* starts less than 0.1 from its end is merged into exactly one segment, from
\* the first start to the last end, its length their distance.
C5_GapMerge ==
  (Merged /\ ChainFuses) =>
    /\ Len(merged_segments) = 1
    /\ merged_segments[1].start = segments[1].start
    /\ merged_segments[1].end = segments[Len(segments)].end
    /\ merged_segments[1].length
         = sqrt((segments[Len(segments)].end.X - segments[1].start.X)
                  * (segments[Len(segments)].end.X - segments[1].start.X)
                + (segments[Len(segments)].end.Y - segments[1].start.Y)
                    * (segments[Len(segments)].end.Y - segments[1].start.Y))

\* C5 witness: three segments of length 5 with two gaps of 0.05 have become
\* one segment of length 15.1.
C5_Witness ==
  /\ Merged
  /\ ChainFuses
  /\ Len(segments) = 3
  /\ \A k \in 1..3 : segments[k].length = 5000
  /\ \A k \in 2..3 : GapTo(segments[k - 1].end, segments[k]) = 50
  /\ Len(merged_segments) = 1
  /\ merged_segments[1].length = 15100

\* The second fold has ended on the output of the first.
MergedTwice == pc = "group" /\ pass = 2

\* C9 as the specification states it: the fold applied to its own output
\* returns it unchanged.
C9_Idempotent == MergedTwice => merged_segments = first_merged

\* The gap between the segments k and k + 1 of the list.
GapAfter(list, k) == GapTo(list[k].end, list[k + 1])

\* The segments k and k + 1 of the list would be fused by a fold that has
\* fused nothing before them: they are collinear, and either less than 0.1
\* apart, or as far apart, within 0.1, as the collinear pair just before.
WouldFuse(list, k) ==
  /\ CollinearModPi(list[k].direction, list[k + 1].direction)
  /\ \/ GapAfter(list, k) < 100
     \/ /\ k >= 2
        /\ CollinearModPi(list[k - 1].direction, list[k].direction)
        /\ Abs(GapAfter(list, k) - GapAfter(list, k - 1)) < 100

\* No two consecutive segments of the list would be fused.
Settled(list) == \A k \in 1..(Len(list) - 1) : ~WouldFuse(list, k)

\* C9, as the code has it: the fold applied to its own output returns it
\* unchanged exactly when no two consecutive segments of that output would be
\* fused, and a shorter list otherwise.
C9_IdempotentWhenSettled ==
  MergedTwice =>
    /\ Settled(first_merged) <=> merged_segments = first_merged
    /\ ~Settled(first_merged) => Len(merged_segments) < Len(first_merged)

\* C9 witness: an output of two collinear segments 0.5 apart has been folded
\* again and has come back unchanged.
C9_Witness ==
  /\ MergedTwice
  /\ Len(first_merged) = 2
  /\ CollinearModPi(first_merged[1].direction, first_merged[2].direction)
  /\ GapAfter(first_merged, 1) = 500
  /\ merged_segments = first_merged

\* C11 as the specification states it: every placement of the deduplicated,
\* sorted list is at least as long as the host's floor.
C11_OutputAboveFloor ==
  pc \in {"done", "place", "placed"} =>
    \A k \in DOMAIN placements : placements[k][3] >= 3

\* C11, as the code has it: the floor is applied when the walls are created
\* (lines 957, 975), so that every wall created comes from a placement at
\* least as long as the floor and has a line at least as long, while the
\* list itself may hold shorter placements, which give no wall.
C11_WallsAboveFloor ==
  /\ \A k \in DOMAIN created_walls :
       /\ created_walls[k].wall[3] >= 3
       /\ \E q \in DOMAIN placements : placements[q] = created_walls[k].wall
       /\ (created_walls[k].line[2].X - created_walls[k].line[1].X)
            * (created_walls[k].line[2].X - created_walls[k].line[1].X)
          + (created_walls[k].line[2].Y - created_walls[k].line[1].Y)
              * (created_walls[k].line[2].Y - created_walls[k].line[1].Y) >= 3 * 3
  /\ Len(created_walls) <= Cardinality({q \in DOMAIN placements : placements[q][3] >= 3})

\* C11 witness: of a list holding a placement of length 0.002 and one of
\* length 7, the wall of the second alone has been created.
C11_Witness ==
  /\ pc = "placed"
  /\ Len(placements) = 2
  /\ \E k \in DOMAIN placements : placements[k][3] = 2
  /\ Len(created_walls) = 1
  /\ created_walls[1].wall[3] = 7000

\* The value of a decimal digit, for a character that is one.
CharValue ==
  [c \in {"0", "1", "2", "3", "4", "5", "6", "7", "8", "9"} |->
     CASE c = "0" -> 0 [] c = "1" -> 1 [] c = "2" -> 2 [] c = "3" -> 3
       [] c = "4" -> 4 [] c = "5" -> 5 [] c = "6" -> 6 [] c = "7" -> 7
       [] c = "8" -> 8 [] c = "9" -> 9]

\* The positions a..b of the label hold a maximal run of digits.
DigitRun(label, a, b) ==
  /\ a <= b
  /\ \A k \in a..b : label[k] \in DOMAIN CharValue
  /\ a = 1 \/ label[a - 1] \notin DOMAIN CharValue
  /\ b = Len(label) \/ label[b + 1] \notin DOMAIN CharValue

RECURSIVE RunValue(_, _, _)
\* The decimal value of the digits at a..b.
RunValue(label, a, b) ==
  IF b < a THEN 0 ELSE 10 * RunValue(label, a, b - 1) + CharValue[label[b]]

\* The starts of the digit runs of the label whose value exceeds 10.
Qualifying(label) ==
  {a \in DOMAIN label :
     \E b \in DOMAIN label : DigitRun(label, a, b) /\ RunValue(label, a, b) > 10}

\* The thickness of a catalog entry: the first integer > 10 among its digit
\* runs, as a sequence of one number, or empty where there is none.
Thickness(label) ==
  IF Qualifying(label) = {} THEN <<>>
  ELSE LET a == CHOOSE x \in Qualifying(label) : \A o \in Qualifying(label) : x <= o
           b == CHOOSE y \in DOMAIN label : DigitRun(label, a, y)
       IN  <<RunValue(label, a, b)>>

\* The catalog entries of thickness m.
OfThickness(catalog, m) ==
  {k \in DOMAIN catalog : Thickness(catalog[k]) = <<m>>}

\* C12: the search returns the first entry, in caller order, whose thickness
\* (the first integer > 10 among the digit runs of its label) equals the
\* measured millimetres, never an entry without such an integer, and nothing
\* when no entry qualifies.
C12_CatalogSearch ==
  pc = "searched" =>
    IF OfThickness(selected_families, distance_mm) = {}
    THEN matched = <<>>
    ELSE \E k \in OfThickness(selected_families, distance_mm) :
           /\ \A o \in OfThickness(selected_families, distance_mm) : k <= o
           /\ matched = <<selected_families[k]>>

\* C12 witness: the search has passed over an entry whose only integer is 10
\* and returned the entry behind it, whose first integer above 10 is not its
\* first integer.
C12_Witness ==
  /\ pc = "searched"
  /\ Len(selected_families) = 2
  /\ selected_families[1] = <<"W", "1", "0">>
  /\ distance_mm = 150
  /\ selected_families[2] = <<"0", "1", "0", "-", "1", "5", "0">>
  /\ matched = <<selected_families[2]>>

\* The group that has just ended emitted a pair placement.
PairEmitted ==
  /\ GroupEnded
  /\ Len(direction_groups[group - 1].segs) >= 2
  /\ consumed # <<>>
  /\ consumed[Len(consumed)] \subseteq Range(direction_groups[group - 1].segs)

\* C13: the angle of an emitted pair placement lies in (-pi/2, pi/2], so that
\* the two directions of one line give one angle.
C13_PairAngleNormalized ==
  PairEmitted =>
    /\ placements[Len(placements)][2] > -15708
    /\ placements[Len(placements)][2] <= 15708

\* The angle is less than 0.01 rad from a cardinal, modulo 2 pi: also from
\* below 0, which is just below 2 pi.
NearCardinal(a) ==
  \E c \in {0, 15708, 31416, 47124, 62832} : Abs((a % 62832) - c) < 100

\* C14: every emitted placement whose angle is within 0.01 rad of a cardinal
\* carries the exact cardinal value.
C14_AnglesSnapped ==
  \A k \in DOMAIN placements :
    NearCardinal(placements[k][2]) => placements[k][2] \in {0, 15708, 31416, 47124}

\* The segments a and b are both unused and would give a wall: they face
\* each other at a catalog thickness and no placement lies at their middle.
PairLeftOver(a, b) ==
  /\ ~merged_segments[a].used
  /\ ~merged_segments[b].used
  /\ FacingPair(merged_segments[a], merged_segments[b])
  /\ FirstOfThickness(selected_families,
                      SeparationMm(merged_segments[a], merged_segments[b])) # <<>>
  /\ ~PlacedNear(placements, AverageMidpoint(merged_segments[a], merged_segments[b]))

\* C15: after a pair match the outer loop goes on with the next unused
\* segment, so that a group gives one placement for each of its disjoint
\* matchable pairs: when the group has ended, no such pair is left unused.
C15_EveryPairPlaced ==
  (GroupEnded /\ Len(direction_groups[group - 1].segs) >= 2) =>
    \A a, b \in Range(direction_groups[group - 1].segs) :
      a # b => ~PairLeftOver(a, b)

\* The architectural matcher is at a candidate, singleton or pair, whose
\* midpoint lies less than 0.01 from an accumulated placement.
AtCollidingSingleton ==
  /\ AtSingleton
  /\ PlacedNear(placements,
                Midpoint(merged_segments[direction_groups[group].segs[1]]))

AtCollidingPair ==
  /\ pc = "inner"
  /\ j <= Len(sorted_segs)
  /\ PlacedNear(placements,
                PairCandidate(merged_segments[sorted_segs[i]],
                              merged_segments[sorted_segs[j]],
                              selected_families).mid_point)

\* C16, step part: a colliding candidate is passed over; the placement list
\* and the used flags stay as they were and the loop moves to the next
\* candidate.
C16_Skip ==
  /\ AtCollidingSingleton =>
       (placements' = placements /\ merged_segments' = merged_segments
          /\ group' = group + 1)
  /\ AtCollidingPair =>
       (placements' = placements /\ merged_segments' = merged_segments
          /\ j' = j + 1 /\ i' = i /\ pc' = "inner")

\* C16, state part: in architectural mode no two accumulated placements have
\* midpoints less than 0.01 apart, and the Deduplicator removes nothing.
C16_Apart ==
  (architectural_mode /\ ~structural_mode) =>
    /\ \A a, b \in DOMAIN placements :
         a # b =>
           (placements[a][1].X - placements[b][1].X)
             * (placements[a][1].X - placements[b][1].X)
           + (placements[a][1].Y - placements[b][1].Y)
               * (placements[a][1].Y - placements[b][1].Y)
           + (placements[a][1].Z - placements[b][1].Z)
               * (placements[a][1].Z - placements[b][1].Z) >= 10 * 10
    /\ pc \in {"sort", "done"} => n_candidates = Len(placements)

\* C16: collision rejection in architectural mode.
C16_CollisionRejected == [](C16_Apart) /\ [][C16_Skip]_vars

\* C16 witness: in the second element a pair that faces at a catalog
\* thickness has been passed over, a placement of the first element lying at
\* its middle, and a standalone segment after it likewise.
C16_Witness ==
  /\ pc = "architectural"
  /\ element = 3
  /\ Len(placements) = 2
  /\ Len(direction_groups) = 2
  /\ Len(direction_groups[1].segs) = 2
  /\ FacingPair(merged_segments[direction_groups[1].segs[1]],
                merged_segments[direction_groups[1].segs[2]])
  /\ FirstOfThickness(selected_families,
                      SeparationMm(merged_segments[direction_groups[1].segs[1]],
                                   merged_segments[direction_groups[1].segs[2]])) # <<>>
  /\ \A k \in DOMAIN merged_segments : ~merged_segments[k].used

\* The angle of a segment modulo pi.
AngleModPi(seg) == atan2(seg.direction[2], seg.direction[1]) % 31416

\* The angle a is within 0.1 rad of the key g, directly or shifted by pi
\* either way.
NearKey(g, a) == \E shift \in {-31416, 0, 31416} : Abs(g - a + shift) < 1000

\* The merged segments have just been grouped.
Grouped == pc = "match" /\ group = 1 /\ merged_segments # <<>>

FoldEnded == pc = "group" /\ segments # <<>>

\* The merged list is cut from the input in input order: lo[k]..hi[k] are
\* the input segments the k-th merged segment spans.
CutInOrder(merged, input) ==
  \E lo, hi \in [DOMAIN merged -> DOMAIN input] :
    /\ \A k \in DOMAIN merged :
         /\ lo[k] <= hi[k]
         /\ merged[k].start = input[lo[k]].start
         /\ merged[k].end = input[hi[k]].end
         /\ k < Len(merged) => hi[k] < lo[k + 1]
    /\ lo[1] = 1
    /\ hi[Len(merged)] = Len(input)

\* The fold is about to take a segment off the accumulator's direction.
AtTurn ==
  /\ pc = "merge"
  /\ next_seg <= Len(segments)
  /\ ~CollinearModPi(current_seg.direction, segments[next_seg].direction)

\* C18: the merged list is non-empty, no longer than the input and cut from
\* it in input order, from the first input start to the last input end; a
\* next segment not collinear with the accumulator closes the accumulator,
\* starts a new one at that segment and clears the remembered gap.
C18_FoldStructure ==
  /\ [](FoldEnded =>
          /\ merged_segments # <<>>
          /\ Len(merged_segments) <= Len(segments)
          /\ CutInOrder(merged_segments, segments)
          /\ merged_segments[1].start = segments[1].start
          /\ merged_segments[Len(merged_segments)].end
               = segments[Len(segments)].end)
  /\ [][AtTurn =>
          /\ merged_segments' = Append(merged_segments, current_seg)
          /\ current_seg' = segments[next_seg]
          /\ last_gap' = <<>>]_vars

\* C18 witness: a chain of three whose first two segments were fused and
\* whose third, off their direction, closed the accumulator.
C18_Witness ==
  /\ FoldEnded
  /\ pass = 1
  /\ Len(segments) = 3
  /\ Len(merged_segments) = 2
  /\ merged_segments[1].start = segments[1].start
  /\ merged_segments[1].end = segments[2].end
  /\ merged_segments[2] = segments[3]
  /\ ~CollinearModPi(merged_segments[1].direction, segments[3].direction)

\* The signed projection of a placement's midpoint onto its wall direction.
Projection(placement) ==
  placement[1].X * cos(placement[2]) + placement[1].Y * sin(placement[2])

\* The list after is the list before with its entries rearranged so that
\* their projections do not decrease and equal projections keep their order.
StablySorted(before, after) ==
  IF before = <<>> THEN after = <<>>
  ELSE \E perm \in Permutations(DOMAIN before) :
         /\ after = [k \in DOMAIN before |-> before[perm[k]]]
         /\ \A a, b \in DOMAIN before :
              a < b =>
                \/ Projection(before[perm[a]]) < Projection(before[perm[b]])
                \/ /\ Projection(before[perm[a]]) = Projection(before[perm[b]])
                   /\ perm[a] < perm[b]

\* C19: the sort leaves a permutation of the deduplicated list, non-decreasing
\* in the projection of the midpoint onto the wall direction, placements of
\* equal projection in the order they had; the final list is so ordered.
C19_OrderStabilizer ==
  /\ [][pc = "sort" => StablySorted(placements, placements')]_vars
  /\ [](pc = "done" =>
          \A a, b \in DOMAIN placements :
            a < b => Projection(placements[a]) <= Projection(placements[b]))

\* C19 witness: a run has ended with three placements, the one of the first
\* element moved to the end of the list behind one of smaller projection.
C19_Witness ==
  /\ pc = "done"
  /\ architectural_mode
  /\ Len(lines_data) = 2
  /\ Len(placements) = 3
  /\ PointsOf(lines_data[1]) # <<>>
  /\ LET pts == PointsOf(lines_data[1])[1]
     IN  /\ Len(pts) = 2
         /\ placements[3][1].X = (pts[1].X + pts[2].X) \div 2
         /\ placements[3][1].Y = (pts[1].Y + pts[2].Y) \div 2
  /\ Projection(placements[1]) < Projection(placements[3])

\* The element is typed PolyLine, MLine or multiline.
WallTyped(e) == e.type \in {"PolyLine", "MLine", "Multiline"}

\* Either loop is at an element of another type.
AtOtherType ==
  /\ pc \in {"structural", "architectural"}
  /\ element <= Len(lines_data)
  /\ ~WallTyped(lines_data[element])

\* C20: in both modes an element typed other than PolyLine, MLine or
\* multiline is passed over with the placement list as it was, and a layer
\* of such elements alone ends with an empty placement list.
C20_TypeFilter ==
  /\ [][AtOtherType =>
          /\ placements' = placements
          /\ element' = element + 1
          /\ pc' = pc]_vars
  /\ []((/\ pc \in {"dedup", "sort", "done"}
         /\ \A k \in DOMAIN lines_data : ~WallTyped(lines_data[k]))
          => placements = <<>>)

\* C20 witness: the second element of the layer, of another type, has been
\* passed over with placements of the first already in the list.
C20_Witness ==
  /\ pc \in {"structural", "architectural"}
  /\ Len(lines_data) = 2
  /\ element = 3
  /\ WallTyped(lines_data[1])
  /\ ~WallTyped(lines_data[2])
  /\ placements # <<>>

\* The wall-creation loop is running or has run.
Placing == pc \in {"place", "placed", "committing", "closed"}

\* C21: once the cancel flag is set it stays set, the loop ends at its next
\* iteration's head and no further wall is created; the flag is set only by
\* an iteration that has created its wall and counted it; the progress
\* counter is the number of walls created and never exceeds the number of
\* placements; and after a cancelled loop the transaction is committed with
\* the walls created, a rollback following only a commit that raised.
C21_CancelAtBoundaries ==
  /\ [][cancelled =>
          /\ cancelled'
          /\ created_walls' = created_walls
          /\ progress_current' = progress_current
          /\ next_placement' = next_placement]_vars
  /\ [][(pc = "place" /\ cancelled) => pc' = "placed"]_vars
  /\ [][(~cancelled /\ cancelled') =>
          /\ pc = "place"
          /\ Len(created_walls') = Len(created_walls) + 1
          /\ created_walls'[Len(created_walls')].wall = placements[next_placement]
          /\ progress_current' = progress_current + 1]_vars
  /\ [](Placing =>
          /\ progress_current = Len(created_walls)
          /\ progress_current <= Len(placements)
          /\ progress_current < next_placement)
  /\ [][(pc = "placed" /\ cancelled) =>
          /\ t_place' \in {"committed", "commit_raised"}
          /\ created_walls' = created_walls]_vars
  /\ [][(t_place' \in {"rolled_back", "rollback_raised"} /\ t_place' # t_place)
          => t_place = "commit_raised"]_vars

\* C21 witness: the run was cancelled after its first wall, with a placement
\* left in the list, and the transaction committed with that wall.
C21_Witness ==
  /\ pc = "closed"
  /\ cancelled
  /\ t_place = "committed"
  /\ Len(created_walls) = 1
  /\ progress_current = 1
  /\ next_placement <= Len(placements)
  /\ ~too_short(placements[next_placement][3])

\* The fold of an element's segments is about to take the next segment.
AtNextSegment == pc = "merge" /\ next_seg <= Len(segments)

\* C22: in the handler the accumulator ends where the next segment starts,
\* no gap is ever remembered, and every next segment collinear with the
\* accumulator is fused into it: nothing is closed, the start is kept and
\* the end becomes the next segment's.
C22_NoGapInPipeline ==
  /\ [](last_gap = <<>>)
  /\ [](AtNextSegment =>
          /\ current_seg.end = segments[next_seg].start
          /\ GapTo(current_seg.end, segments[next_seg]) = 0)
  /\ [][(/\ AtNextSegment
         /\ CollinearModPi(current_seg.direction, segments[next_seg].direction))
          => /\ merged_segments' = merged_segments
             /\ current_seg'.start = current_seg.start
             /\ current_seg'.end = segments[next_seg].end]_vars

\* C22 witness: a fold of two collinear segments has ended with the two
\* fused into one and no gap remembered.
C22_Witness ==
  /\ pc = "group"
  /\ Len(segments) = 2
  /\ CollinearModPi(segments[1].direction, segments[2].direction)
  /\ merged_segments # <<>>
  /\ Len(merged_segments) = 1
  /\ merged_segments[1].start = segments[1].start
  /\ merged_segments[1].end = segments[2].end
  /\ merged_segments[1].length = segments[1].length + segments[2].length
  /\ last_gap = <<>>

\* The points of an element: its point list, or its two ends.
Points(e) ==
  IF "points" \in DOMAIN e THEN e.points
  ELSE IF {"start", "end"} \subseteq DOMAIN e THEN <<e.start, e.end>>
  ELSE <<>>

\* Two unit directions (1/10000) with |dot| >= 0.99.
Parallel(d, e) == Abs(d[1] * e[1] + d[2] * e[2]) >= 99000000

\* Every segment of the point list is parallel to the first.
AllCollinear(pts) ==
  \A k \in 2..(Len(pts) - 1) :
    Parallel(segment_direction(pts[1], pts[2]), segment_direction(pts[k], pts[k + 1]))

\* The length of the k-th segment of the point list.
SegLength(pts, k) == PlanarDistance(pts[k], pts[k + 1])

\* The segments a and b are two longest of the point list, a not shorter
\* than b.
TwoLongest(pts, a, b) ==
  /\ a # b
  /\ SegLength(pts, a) >= SegLength(pts, b)
  /\ \A o \in 1..(Len(pts) - 1) :
       o \notin {a, b} => SegLength(pts, o) <= SegLength(pts, b)

\* The interval [lo, hi] of the k-th segment projected on the direction d.
ProjectedLo(pts, k, d) ==
  Min(pts[k].X * d[1] + pts[k].Y * d[2], pts[k + 1].X * d[1] + pts[k + 1].Y * d[2])

ProjectedHi(pts, k, d) ==
  Max(pts[k].X * d[1] + pts[k].Y * d[2], pts[k + 1].X * d[1] + pts[k + 1].Y * d[2])

\* The length of the overlap of the segments a and b projected on the
\* direction of a, in 1/10000 of 1/1000 ft; not positive where they do not
\* overlap.
ProjectedOverlap(pts, a, b) ==
  LET d == segment_direction(pts[a], pts[a + 1])
  IN  Min(ProjectedHi(pts, a, d), ProjectedHi(pts, b, d))
        - Max(ProjectedLo(pts, a, d), ProjectedLo(pts, b, d))

\* The distance of the start of a from the line of b, in millimetres.
PerpendicularMm(pts, a, b) ==
  LET d == segment_direction(pts[b], pts[b + 1])
  IN  ToMillimetres(RoundDiv(Abs((pts[a].Y - pts[b].Y) * d[1]
                                   - (pts[a].X - pts[b].X) * d[2]), 10000))

\* The placement p is the one of a collinear element: from its first point
\* to its last, typed with the first selected family.
CollinearPlacement(pts, p) ==
  /\ selected_families # <<>>
  /\ p[4] = selected_families[1]
  /\ p[3] = PlanarDistance(pts[1], pts[Len(pts)])
  /\ p[1].X = (pts[1].X + pts[Len(pts)].X) \div 2
  /\ p[1].Y = (pts[1].Y + pts[Len(pts)].Y) \div 2

\* The placement p is one of two longest segments of the element, parallel,
\* overlapping and as far apart as the thickness of the family of p.
PairPlacement(pts, p) ==
  \E a, b \in 1..(Len(pts) - 1) :
    /\ TwoLongest(pts, a, b)
    /\ Parallel(segment_direction(pts[a], pts[a + 1]),
                segment_direction(pts[b], pts[b + 1]))
    /\ ProjectedOverlap(pts, a, b) > 0
    /\ p[3] = RoundDiv(ProjectedOverlap(pts, a, b), 10000)
    /\ p[4] \in Range(selected_families)
    /\ Thickness(p[4]) = <<PerpendicularMm(pts, a, b)>>

\* What the structural loop may do with the element e: pass it over, or add
\* one placement made of e alone.
StructuralContribution(e) ==
  LET pts == Points(e)
  IN  IF ~WallTyped(e) \/ Len(pts) < 2 THEN placements' = placements
      ELSE IF AllCollinear(pts)
      THEN IF selected_families = <<>> THEN placements' = placements
           ELSE /\ Len(placements') = Len(placements) + 1
                /\ SubSeq(placements', 1, Len(placements)) = placements
                /\ CollinearPlacement(pts, placements'[Len(placements')])
      ELSE \/ placements' = placements
           \/ /\ Len(placements') = Len(placements) + 1
              /\ SubSeq(placements', 1, Len(placements)) = placements
              /\ PairPlacement(pts, placements'[Len(placements')])

\* C23: with the structural box checked the structural loop runs, and each
\* of its elements adds at most one placement, made of that element alone:
\* a collinear element one placement from its first point to its last typed
\* with the first selected family (none without a family); any other element
\* one only of its two longest segments, and only if they are parallel,
\* overlap and are apart by the thickness of a catalog entry.
C23_StructuralMode ==
  /\ [][(pc = "form" /\ sel_layer # "" /\ structural_mode) => pc' = "structural"]_vars
  /\ [][(pc = "structural" /\ element <= Len(lines_data))
          => /\ StructuralContribution(lines_data[element])
             /\ element' = element + 1]_vars

\* C23 witness: a run on two elements has ended with two placements, one of
\* the two longest segments of the first element and one of the second,
\* collinear element.
C23_Witness ==
  /\ pc = "done"
  /\ structural_mode
  /\ Len(lines_data) = 2
  /\ Len(Points(lines_data[1])) = 4
  /\ AllCollinear(Points(lines_data[2]))
  /\ Len(placements) = 2
  /\ \E k \in DOMAIN placements : PairPlacement(Points(lines_data[1]), placements[k])
  /\ \E k \in DOMAIN placements : CollinearPlacement(Points(lines_data[2]), placements[k])

\* An element whose two longest segments are 2 ft apart, with a third
\* segment 150 mm from one of them, has added nothing.
C23_WitnessLongest ==
  /\ pc = "done"
  /\ structural_mode
  /\ Len(lines_data) = 1
  /\ Len(Points(lines_data[1])) = 6
  /\ selected_families # <<>>
  /\ Thickness(selected_families[1]) = <<150>>
  /\ placements = <<>>

=============================================================================
